---- MODULE Spec2Model ----
\* A model of the elvenotel telemetry wrapper: configuration loading from the
\* environment, construction and shutdown of the three OpenTelemetry providers,
\* the real and the no-op TelemetryProvider implementations, and the free
\* functions StartTracing and RecordMetrics.
\*
\* Three specifications share the variables:
\*   SpecConfig   NewConfigFromEnv applied to every environment of EnvsOver(AllVars)
\*   Spec         the startup function IniciandoTelemetria followed by Shutdown
\*   SpecRuntime  TelemetryProvider operations and concurrent requests that use
\*                StartTracing / RecordMetrics against Telemetry or NoopTelemetry
\*
\* Strings that the code parses are sequences of one-character strings, so that
\* the parsers below work on the text the way strconv / time do. A Go error is a
\* chain of layers, outermost first; a layer is the sequence of text segments
\* that layer prints. The empty chain is the nil error.
EXTENDS Integers, Sequences, FiniteSets, TLC

VARIABLES
    env,            \* the process environment: variable name -> [set, val]
    pc,             \* position of the startup goroutine
    cfgRes,         \* what NewConfigFromEnv returned: [cfg, err]
    ntRes,          \* what NewTelemetry returned: [tel, err]
    startRes,       \* what IniciandoTelemetria returned: [kind, tel, err]
    prov,           \* SDK providers created by this process: name -> status
    globalMeter,    \* otel's process-global meter provider
    globalTracer,   \* otel's process-global tracer provider
    calls,          \* constructor invocations, in order
    shutdownLog,    \* provider Shutdown invocations, in order
    impl,           \* the TelemetryProvider the requests use
    running,        \* FALSE once os.Exit has been called
    lastOp,         \* the last TelemetryProvider method called directly
    returned,       \* whether that call returned control to its caller
    logs,           \* log records emitted so far: level -> count
    inflight,       \* value of the requests-in-flight up/down counter
    samples,        \* request -> duration samples recorded for it
    spans,          \* spans started by the tracer
    ctxAttrs,       \* attribute sets written to a span the caller's context carried
    rpc,            \* request -> position
    ctr,            \* request -> the counter RecordMetrics captured
    hist,           \* request -> the histogram the returned function obtained
    adds,           \* request -> Add(+1) calls applied for it
    decs            \* request -> Add(-1) calls applied for it

startupVars == <<env, pc, cfgRes, ntRes, startRes, prov, globalMeter, globalTracer,
                 calls, shutdownLog>>
runtimeVars == <<impl, running, lastOp, returned, logs, inflight, samples, spans,
                 ctxAttrs, rpc, ctr, hist, adds, decs>>
vars == <<env, pc, cfgRes, ntRes, startRes, prov, globalMeter, globalTracer,
          calls, shutdownLog, impl, running, lastOp, returned, logs, inflight,
          samples, spans, ctxAttrs, rpc, ctr, hist, adds, decs>>

-----------------------------------------------------------------------------
\* Errors

NoErr == <<>>

\* fmt.Errorf("msg: %w", e): a new layer in front of e; errors.Unwrap gives e back.
WrapW(msg, e) == <<(<<msg>>)>> \o e

RECURSIVE ErrorText(_)
\* e.Error(): the text of every layer, outermost first.
ErrorText(e) == IF e = <<>> THEN <<>> ELSE Head(e) \o ErrorText(Tail(e))

\* fmt.Errorf("msg: %v", e): one layer holding msg and e's text; nothing to unwrap.
FormatV(msg, e) == <<(<<msg>> \o ErrorText(e))>>

\* errors.Unwrap
Unwrap(e) == IF e = <<>> THEN <<>> ELSE Tail(e)

-----------------------------------------------------------------------------
\* Text parsing, as the env library does it for bool, int and time.Duration fields

Digits == <<"0", "1", "2", "3", "4", "5", "6", "7", "8", "9">>

IsDigit(c) == \E i \in 1..10 : Digits[i] = c

DigitVal(c) == (CHOOSE i \in 1..10 : Digits[i] = c) - 1

\* strconv.ParseBool
ParseBool(s) ==
    IF s \in {<<"1">>, <<"t">>, <<"T">>, <<"T","R","U","E">>,
              <<"t","r","u","e">>, <<"T","r","u","e">>}
    THEN [ok |-> TRUE, v |-> TRUE]
    ELSE IF s \in {<<"0">>, <<"f">>, <<"F">>, <<"F","A","L","S","E">>,
                   <<"f","a","l","s","e">>, <<"F","a","l","s","e">>}
    THEN [ok |-> TRUE, v |-> FALSE]
    ELSE [ok |-> FALSE, v |-> FALSE]

RECURSIVE LeadingDigits(_)
\* The number of leading decimal digits of s.
LeadingDigits(s) ==
    IF s = <<>> \/ ~IsDigit(Head(s)) THEN 0 ELSE 1 + LeadingDigits(Tail(s))

RECURSIVE LeadingNonDigits(_)
\* The number of leading characters of s that are not digits (a unit name).
LeadingNonDigits(s) ==
    IF s = <<>> \/ IsDigit(Head(s)) THEN 0 ELSE 1 + LeadingNonDigits(Tail(s))

RECURSIVE DecimalValue(_, _)
\* The value of the digit string s, continuing from acc.
DecimalValue(s, acc) ==
    IF s = <<>> THEN acc ELSE DecimalValue(Tail(s), acc * 10 + DigitVal(Head(s)))

\* strconv.ParseInt(s, 10, 0): an optional sign and at least one digit.
ParseInt(s) ==
    LET signed == s # <<>> /\ Head(s) \in {"-", "+"}
        body   == IF signed THEN Tail(s) ELSE s
    IN  IF body = <<>> \/ LeadingDigits(body) # Len(body)
        THEN [ok |-> FALSE, v |-> 0]
        ELSE [ok |-> TRUE,
              v  |-> IF signed /\ Head(s) = "-"
                     THEN 0 - DecimalValue(body, 0) ELSE DecimalValue(body, 0)]

\* time's unitMap, in milliseconds. Durations are kept in milliseconds here, so
\* the sub-millisecond units ("ns", "us") are outside the modelled inputs.
UnitMillis(u) ==
    CASE u = <<"m","s">> -> 1
      [] u = <<"s">>     -> 1000
      [] u = <<"m">>     -> 60000
      [] u = <<"h">>     -> 3600000
      [] OTHER           -> 0

RECURSIVE DurationGroups(_, _)
\* The loop of time.ParseDuration: a number, then a unit, until the text ends.
\* Fractions are outside the modelled inputs.
DurationGroups(s, acc) ==
    IF s = <<>> THEN [ok |-> TRUE, v |-> acc]
    ELSE LET nd   == LeadingDigits(s)
             rest == SubSeq(s, nd + 1, Len(s))
             nu   == LeadingNonDigits(rest)
             unit == SubSeq(rest, 1, nu)
         IN  IF nd = 0 \/ nu = 0 \/ UnitMillis(unit) = 0
             THEN [ok |-> FALSE, v |-> 0]
             ELSE DurationGroups(SubSeq(rest, nu + 1, Len(rest)),
                                 acc + DecimalValue(SubSeq(s, 1, nd), 0) * UnitMillis(unit))

\* time.ParseDuration: [-+]?(digits unit)+, and "0" alone.
ParseDuration(s) ==
    LET signed == s # <<>> /\ Head(s) \in {"-", "+"}
        body   == IF signed THEN Tail(s) ELSE s
        groups == DurationGroups(body, 0)
    IN  IF body = <<"0">> THEN [ok |-> TRUE, v |-> 0]
        ELSE IF body = <<>> \/ ~groups.ok THEN [ok |-> FALSE, v |-> 0]
        ELSE [ok |-> TRUE,
              v  |-> IF signed /\ Head(s) = "-" THEN 0 - groups.v ELSE groups.v]

-----------------------------------------------------------------------------
\* Config

FieldNames == {"ServiceName", "OTLPEndpoint", "ResourceAttributes", "ServiceVersion",
               "Enabled", "OTELExporterTimeout", "OTELLogLevel", "OTELPropagators",
               "LokiAppName", "LokiAuthToken", "LokiFlushTimeout", "LokiTenantID",
               "LokiURL"}

\* The struct tags of Config: the variable read, its envDefault and the field's type.
ConfigTags ==
    [ServiceName         |-> [env |-> "OTEL_SERVICE_NAME", hasDef |-> TRUE,
                              def |-> <<"c","a","i","o">>, type |-> "string"],
     OTLPEndpoint        |-> [env |-> "OTEL_EXPORTER_OTLP_ENDPOINT", hasDef |-> TRUE,
                              def |-> <<"l","o","c","a","l","h","o","s","t",":","4","3","1","7">>,
                              type |-> "string"],
     ResourceAttributes  |-> [env |-> "OTEL_RESOURCE_ATTRIBUTES", hasDef |-> FALSE,
                              def |-> <<>>, type |-> "string"],
     ServiceVersion      |-> [env |-> "SERVICE_VERSION", hasDef |-> TRUE,
                              def |-> <<"0",".","0",".","1">>, type |-> "string"],
     Enabled             |-> [env |-> "TELEMETRY_ENABLED", hasDef |-> TRUE,
                              def |-> <<"t","r","u","e">>, type |-> "bool"],
     OTELExporterTimeout |-> [env |-> "OTEL_EXPORTER_OTLP_TIMEOUT", hasDef |-> TRUE,
                              def |-> <<"1","0","s">>, type |-> "duration"],
     OTELLogLevel        |-> [env |-> "OTEL_LOG_LEVEL", hasDef |-> TRUE,
                              def |-> <<"i","n","f","o">>, type |-> "string"],
     OTELPropagators     |-> [env |-> "OTEL_PROPAGATORS", hasDef |-> TRUE,
                              def |-> <<"t","r","a","c","e","c","o","n","t","e","x","t",",",
                                        "b","a","g","g","a","g","e">>,
                              type |-> "string"],
     LokiAppName         |-> [env |-> "LOKI_APP_NAME", hasDef |-> TRUE,
                              def |-> <<"g","o","-","a","p","p">>, type |-> "string"],
     LokiAuthToken       |-> [env |-> "LOKI_AUTH_TOKEN", hasDef |-> FALSE,
                              def |-> <<>>, type |-> "string"],
     LokiFlushTimeout    |-> [env |-> "LOKI_FLUSH_TIMEOUT", hasDef |-> TRUE,
                              def |-> <<"2","0","0","0">>, type |-> "int"],
     LokiTenantID        |-> [env |-> "LOKI_TENANT_ID", hasDef |-> TRUE,
                              def |-> <<"m","y","-","t","e","n","a","n","t">>,
                              type |-> "string"],
     LokiURL             |-> [env |-> "LOKI_URL", hasDef |-> FALSE,
                              def |-> <<>>, type |-> "string"]]

AllVars == {ConfigTags[f].env : f \in FieldNames}

\* The zero value of a field of the given type.
ZeroOf(type) ==
    CASE type = "bool"     -> [ok |-> TRUE, v |-> FALSE]
      [] type = "duration" -> [ok |-> TRUE, v |-> 0]
      [] type = "int"      -> [ok |-> TRUE, v |-> 0]
      [] OTHER             -> [ok |-> TRUE, v |-> <<>>]

\* Config{}
ZeroConfig == [f \in FieldNames |-> ZeroOf(ConfigTags[f].type).v]

\* The env library's conversion of a variable's text to the field's type.
ParseAs(type, raw) ==
    CASE type = "bool"     -> ParseBool(raw)
      [] type = "duration" -> ParseDuration(raw)
      [] type = "int"      -> ParseInt(raw)
      [] OTHER             -> [ok |-> TRUE, v |-> raw]

\* What env.Parse does for one field: the variable's value when it is set, else
\* the envDefault when there is one, else the field is left at its zero value.
ParseField(e, f) ==
    LET tag == ConfigTags[f]
    IN  IF e[tag.env].set THEN ParseAs(tag.type, e[tag.env].val)
        ELSE IF tag.hasDef THEN ParseAs(tag.type, tag.def)
        ELSE ZeroOf(tag.type)

\* The library's error for the fields that did not parse.
EnvParseError == <<(<<"env: parse error">>)>>

\* NewConfigFromEnv returning the Config that env.Parse filled in, beside the
\* error, instead of Config{}.
NewConfigFromEnvPartial(e) ==
    LET bad == {f \in FieldNames : ~ParseField(e, f).ok}
    IN  IF bad # {}
        THEN [cfg |-> [f \in FieldNames |-> ParseField(e, f).v],
              err |-> WrapW("failed to parse telemetry config", EnvParseError)]
        ELSE [cfg |-> [f \in FieldNames |-> ParseField(e, f).v], err |-> NoErr]

\* NewConfigFromEnv: env.Parse into a fresh Config; on an error Config{} and the
\* wrapped error.
NewConfigFromEnv(e) ==
    LET bad == {f \in FieldNames : ~ParseField(e, f).ok}
    IN  IF bad # {}
        THEN [cfg |-> ZeroConfig,
              err |-> WrapW("failed to parse telemetry config", EnvParseError)]
        ELSE [cfg |-> [f \in FieldNames |-> ParseField(e, f).v], err |-> NoErr]

-----------------------------------------------------------------------------
\* Providers

Providers == <<"lp", "mp", "tp">>

ProviderNames == {"lp", "mp", "tp"}

\* Why an OTLP exporter constructor may fail.
ExporterFailures == {<<(<<"context canceled">>)>>, <<(<<"invalid endpoint">>)>>}

ExporterOutcomes == {NoErr} \cup ExporterFailures

\* The part of the process the provider constructors act on.
World == [prov |-> prov, globalMeter |-> globalMeter, globalTracer |-> globalTracer,
          calls |-> calls]

\* newLoggerProvider: the OTLP log exporter, then a LoggerProvider over it.
newLoggerProvider(w, cfg, exporterErr) ==
    LET w1 == [w EXCEPT !.calls = Append(@, "newLoggerProvider")]
    IN  IF exporterErr # NoErr
        THEN [w |-> w1, ok |-> FALSE,
              err |-> WrapW("failed to create OTLP log exporter", exporterErr)]
        ELSE [w |-> [w1 EXCEPT !.prov["lp"] = "running"], ok |-> TRUE, err |-> NoErr]

\* newMeterProvider: the OTLP metric exporter, then a MeterProvider over it,
\* which is registered with otel.SetMeterProvider.
newMeterProvider(w, cfg, exporterErr) ==
    LET w1 == [w EXCEPT !.calls = Append(@, "newMeterProvider")]
    IN  IF exporterErr # NoErr
        THEN [w |-> w1, ok |-> FALSE,
              err |-> WrapW("failed to create OTLP metric exporter", exporterErr)]
        ELSE [w |-> [w1 EXCEPT !.prov["mp"] = "running", !.globalMeter = "mp"],
              ok |-> TRUE, err |-> NoErr]

\* newTracerProvider: the OTLP trace exporter, then a TracerProvider over it,
\* which is registered with otel.SetTracerProvider.
newTracerProvider(w, cfg, exporterErr) ==
    LET w1 == [w EXCEPT !.calls = Append(@, "newTracerProvider")]
    IN  IF exporterErr # NoErr
        THEN [w |-> w1, ok |-> FALSE,
              err |-> WrapW("failed to create OTLP trace exporter", exporterErr)]
        ELSE [w |-> [w1 EXCEPT !.prov["tp"] = "running", !.globalTracer = "tp"],
              ok |-> TRUE, err |-> NoErr]

\* A nil *Telemetry.
NilTel == [nil |-> TRUE, lp |-> "nil", mp |-> "nil", tp |-> "nil", serviceName |-> <<>>]

\* NewTelemetry with the early return after a failed meter provider left out:
\* the tracer provider is constructed before the error is returned.
NewTelemetryKeepsGoing(w, cfg, out) ==
    LET l == newLoggerProvider(w, cfg, out.lp)
        m == newMeterProvider(l.w, cfg, out.mp)
        t == newTracerProvider(m.w, cfg, out.tp)
    IN  IF ~l.ok
        THEN [w |-> l.w, tel |-> NilTel,
              err |-> WrapW("failed to create logger provider", l.err)]
        ELSE IF ~m.ok
        THEN [w |-> t.w, tel |-> NilTel,
              err |-> WrapW("failed to create meter provider", m.err)]
        ELSE IF ~t.ok
        THEN [w |-> t.w, tel |-> NilTel,
              err |-> WrapW("failed to create tracer provider", t.err)]
        ELSE [w |-> t.w,
              tel |-> [nil |-> FALSE, lp |-> "lp", mp |-> "mp", tp |-> "tp",
                       serviceName |-> cfg.ServiceName],
              err |-> NoErr]

\* NewTelemetry: the logger, meter and tracer providers in turn; the first
\* failure is wrapped and returned with a nil Telemetry. out gives the outcome
\* of each exporter constructor.
NewTelemetry(w, cfg, out) ==
    LET l == newLoggerProvider(w, cfg, out.lp)
        m == newMeterProvider(l.w, cfg, out.mp)
        t == newTracerProvider(m.w, cfg, out.tp)
    IN  IF ~l.ok
        THEN [w |-> l.w, tel |-> NilTel,
              err |-> WrapW("failed to create logger provider", l.err)]
        ELSE IF ~m.ok
        THEN [w |-> m.w, tel |-> NilTel,
              err |-> WrapW("failed to create meter provider", m.err)]
        ELSE IF ~t.ok
        THEN [w |-> t.w, tel |-> NilTel,
              err |-> WrapW("failed to create tracer provider", t.err)]
        ELSE [w |-> t.w,
              tel |-> [nil |-> FALSE, lp |-> "lp", mp |-> "mp", tp |-> "tp",
                       serviceName |-> cfg.ServiceName],
              err |-> NoErr]

\* NewTelemetry was not called.
NotCalled == [called |-> FALSE, tel |-> NilTel, err |-> NoErr]

\* The body of IniciandoTelemetria: the config from the environment, then
\* NewTelemetry; either error is formatted with %v and returned with a nil
\* provider. The Enabled field of the config is not read.
StartTelemetry(w, e, out) ==
    LET c  == NewConfigFromEnv(e)
        nt == NewTelemetry(w, c.cfg, out)
    IN  IF c.err # NoErr
        THEN [w |-> w, cfgRes |-> c, ntRes |-> NotCalled,
              res |-> [kind |-> "nil", tel |-> NilTel,
                       err |-> FormatV("failed to load telemetry config", c.err)]]
        ELSE IF nt.err # NoErr
        THEN [w |-> nt.w, cfgRes |-> c,
              ntRes |-> [called |-> TRUE, tel |-> nt.tel, err |-> nt.err],
              res |-> [kind |-> "nil", tel |-> NilTel,
                       err |-> FormatV("failed to initialize telemetry", nt.err)]]
        ELSE [w |-> nt.w, cfgRes |-> c,
              ntRes |-> [called |-> TRUE, tel |-> nt.tel, err |-> nt.err],
              res |-> [kind |-> "Telemetry", tel |-> nt.tel, err |-> NoErr]]

\* Shutdown that gives up at the first provider whose Shutdown reports an error.
ShutdownStopsAtError(w, tel, serr) ==
    LET one(acc, p) ==
            IF acc.stop \/ tel[p] = "nil" THEN acc
            ELSE [prov |-> [acc.prov EXCEPT ![p] = "stopped"],
                  log  |-> Append(acc.log, [p |-> p, failed |-> serr[p]]),
                  stop |-> serr[p]]
        a0 == [prov |-> w.prov, log |-> w.log, stop |-> FALSE]
        a3 == one(one(one(a0, "lp"), "mp"), "tp")
    IN  [prov |-> a3.prov, log |-> a3.log]

\* Telemetry.Shutdown: lp, mp and tp are shut down in turn, each when it is not
\* nil, and what each Shutdown returns is dropped. serr says which of them
\* report an error. An SDK provider is stopped by its Shutdown whether or not
\* that reports an error.
ShutdownTelemetry(w, tel, serr) ==
    LET one(acc, p) ==
            IF tel[p] = "nil" THEN acc
            ELSE [prov |-> [acc.prov EXCEPT ![p] = "stopped"],
                  log  |-> Append(acc.log, [p |-> p, failed |-> serr[p]])]
        a0 == [prov |-> w.prov, log |-> w.log]
    IN  one(one(one(a0, "lp"), "mp"), "tp")

-----------------------------------------------------------------------------
\* Environments

\* An unset variable.
NotSet == [set |-> FALSE, val |-> <<>>]

\* The values a variable takes when it is set (never the empty text).
ValuesOf(type) ==
    CASE type = "bool"     -> {<<"f","a","l","s","e">>, <<"1">>, <<"y","e","s">>}
      [] type = "duration" -> {<<"5","s">>, <<"1","m","3","0","s">>, <<"1","0">>}
      [] type = "int"      -> {<<"7">>, <<"x">>}
      [] OTHER             -> {<<"v">>}

TypeOfVar(v) == ConfigTags[CHOOSE f \in FieldNames : ConfigTags[f].env = v].type

\* What variable v may hold in an environment that varies the variables of V.
EntriesOf(v, V) ==
    IF v \in V
    THEN {NotSet} \cup {[set |-> TRUE, val |-> x] : x \in ValuesOf(TypeOfVar(v))}
    ELSE {NotSet}

RECURSIVE EnvsFrom(_, _)
\* The environments over the variables of S, of which those in V may be set.
EnvsFrom(S, V) ==
    IF S = {} THEN {[v \in {} |-> NotSet]}
    ELSE LET v == CHOOSE x \in S : TRUE
         IN  {(v :> x) @@ e : x \in EntriesOf(v, V), e \in EnvsFrom(S \ {v}, V)}

\* The environments in which only the variables of V may be set.
EnvsOver(V) == EnvsFrom(AllVars, V)

\* The variables the startup specification varies.
StartupVars == {"OTEL_SERVICE_NAME", "TELEMETRY_ENABLED", "OTEL_EXPORTER_OTLP_TIMEOUT"}

-----------------------------------------------------------------------------
\* Requests

MaxReqs == 3

Reqs == 1..MaxReqs

\* No log record.
NoLogs == [info |-> 0, error |-> 0, fatal |-> 0]

\* No TelemetryProvider operation has run.
RuntimeIdle ==
    /\ running = TRUE
    /\ lastOp = "none"
    /\ returned = TRUE
    /\ logs = NoLogs
    /\ inflight = 0
    /\ samples = [r \in Reqs |-> 0]
    /\ spans = 0
    /\ ctxAttrs = 0
    /\ rpc = [r \in Reqs |-> "idle"]
    /\ ctr = [r \in Reqs |-> "unset"]
    /\ hist = [r \in Reqs |-> "unset"]
    /\ adds = [r \in Reqs |-> 0]
    /\ decs = [r \in Reqs |-> 0]

\* The process before the startup function has run.
StartupIdle ==
    /\ cfgRes = [cfg |-> ZeroConfig, err |-> NoErr]
    /\ ntRes = NotCalled
    /\ startRes = [kind |-> "nil", tel |-> NilTel, err |-> NoErr]
    /\ prov = [p \in ProviderNames |-> "none"]
    /\ globalMeter = "none"
    /\ globalTracer = "none"
    /\ calls = <<>>
    /\ shutdownLog = <<>>

-----------------------------------------------------------------------------
\* Configuration loading on its own

InitConfig ==
    /\ env \in EnvsOver(AllVars)
    /\ pc = "init"
    /\ impl = "Telemetry"
    /\ StartupIdle
    /\ RuntimeIdle

\* A call of NewConfigFromEnv.
LoadConfig ==
    /\ pc = "init"
    /\ pc' = "loaded"
    /\ cfgRes' = NewConfigFromEnv(env)
    /\ UNCHANGED <<env, ntRes, startRes, prov, globalMeter, globalTracer, calls,
                   shutdownLog>>
    /\ UNCHANGED runtimeVars

NextConfig == LoadConfig

SpecConfig == InitConfig /\ [][NextConfig]_vars

-----------------------------------------------------------------------------
\* Startup and shutdown

Init ==
    /\ env \in EnvsOver(StartupVars)
    /\ pc = "init"
    /\ impl = "Telemetry"
    /\ StartupIdle
    /\ RuntimeIdle

\* A call of IniciandoTelemetria, with the outcome of each exporter constructor.
IniciandoTelemetria ==
    /\ pc = "init"
    /\ \E out \in [ProviderNames -> ExporterOutcomes] :
          LET r == StartTelemetry(World, env, out)
          IN  /\ cfgRes' = r.cfgRes
              /\ ntRes' = r.ntRes
              /\ startRes' = r.res
              /\ prov' = r.w.prov
              /\ globalMeter' = r.w.globalMeter
              /\ globalTracer' = r.w.globalTracer
              /\ calls' = r.w.calls
    /\ pc' = "started"
    /\ UNCHANGED <<env, shutdownLog>>
    /\ UNCHANGED runtimeVars

\* A call of Shutdown on the Telemetry the startup function returned.
Shutdown ==
    /\ pc = "started"
    /\ startRes.kind = "Telemetry"
    /\ \E serr \in [ProviderNames -> BOOLEAN] :
          LET r == ShutdownTelemetry([prov |-> prov, log |-> shutdownLog],
                                     startRes.tel, serr)
          IN  /\ prov' = r.prov
              /\ shutdownLog' = r.log
    /\ pc' = "down"
    /\ UNCHANGED <<env, cfgRes, ntRes, startRes, globalMeter, globalTracer, calls>>
    /\ UNCHANGED runtimeVars

Next == IniciandoTelemetria \/ Shutdown

Spec == Init /\ [][Next]_vars

-----------------------------------------------------------------------------
\* TelemetryProvider operations, called directly

MaxLogs == 3

MaxSpans == 2

\* The process after a startup that produced the provider i.
Started(i) ==
    /\ env = [v \in AllVars |-> NotSet]
    /\ pc = "runtime"
    /\ cfgRes = NewConfigFromEnv([v \in AllVars |-> NotSet])
    /\ ntRes = NotCalled
    /\ startRes = [kind |-> i,
                   tel  |-> IF i = "Telemetry"
                            THEN [nil |-> FALSE, lp |-> "lp", mp |-> "mp", tp |-> "tp",
                                  serviceName |-> <<"c","a","i","o">>]
                            ELSE NilTel,
                   err  |-> NoErr]
    /\ prov = [p \in ProviderNames |-> IF i = "Telemetry" THEN "running" ELSE "none"]
    /\ globalMeter = IF i = "Telemetry" THEN "mp" ELSE "none"
    /\ globalTracer = IF i = "Telemetry" THEN "tp" ELSE "none"
    /\ calls = <<>>
    /\ shutdownLog = <<>>

LogCount == logs.info + logs.error + logs.fatal

\* A direct call of method op that touches nothing but the call record.
Called(op, back) ==
    /\ lastOp' = op
    /\ returned' = back
    /\ UNCHANGED startupVars
    /\ UNCHANGED <<impl, inflight, samples, ctxAttrs, rpc, ctr, hist, adds, decs>>

\* Telemetry.GetServiceName
TelGetServiceName ==
    /\ impl = "Telemetry" /\ running
    /\ Called("GetServiceName", TRUE)
    /\ UNCHANGED <<running, logs, spans>>

\* Telemetry.LogInfo: one record at info level through the zap logger.
TelLogInfo ==
    /\ impl = "Telemetry" /\ running
    /\ LogCount < MaxLogs
    /\ logs' = [logs EXCEPT !.info = @ + 1]
    /\ Called("LogInfo", TRUE)
    /\ UNCHANGED <<running, spans>>

\* Telemetry.LogErrorln as its comment describes it: the record, then os.Exit(1).
TelLogErrorlnExits ==
    /\ impl = "Telemetry" /\ running
    /\ LogCount < MaxLogs
    /\ logs' = [logs EXCEPT !.error = @ + 1]
    /\ running' = FALSE
    /\ Called("LogErrorln", FALSE)
    /\ UNCHANGED spans

\* Telemetry.LogErrorln: one record at error level through the zap logger.
TelLogErrorln ==
    /\ impl = "Telemetry" /\ running
    /\ LogCount < MaxLogs
    /\ logs' = [logs EXCEPT !.error = @ + 1]
    /\ Called("LogErrorln", TRUE)
    /\ UNCHANGED <<running, spans>>

\* Telemetry.LogFatalln: zap writes the record at fatal level and calls os.Exit(1).
TelLogFatalln ==
    /\ impl = "Telemetry" /\ running
    /\ logs' = [logs EXCEPT !.fatal = @ + 1]
    /\ running' = FALSE
    /\ Called("LogFatalln", FALSE)
    /\ UNCHANGED spans

\* Telemetry.MeterInt64Histogram: the meter's histogram of that name, or an error.
TelMeterInt64Histogram ==
    /\ impl = "Telemetry" /\ running
    /\ Called("MeterInt64Histogram", TRUE)
    /\ UNCHANGED <<running, logs, spans>>

\* Telemetry.MeterInt64UpDownCounter: the meter's counter of that name, or an error.
TelMeterInt64UpDownCounter ==
    /\ impl = "Telemetry" /\ running
    /\ Called("MeterInt64UpDownCounter", TRUE)
    /\ UNCHANGED <<running, logs, spans>>

\* Telemetry.TraceStart: the tracer starts a span.
TelTraceStart ==
    /\ impl = "Telemetry" /\ running
    /\ spans < MaxSpans
    /\ spans' = spans + 1
    /\ Called("TraceStart", TRUE)
    /\ UNCHANGED <<running, logs>>

\* NoopTelemetry.GetServiceName
NoopGetServiceName ==
    /\ impl = "Noop" /\ running
    /\ Called("GetServiceName", TRUE)
    /\ UNCHANGED <<running, logs, spans>>

\* NoopTelemetry.LogInfo that writes a record.
NoopLogInfoEmits ==
    /\ impl = "Noop" /\ running
    /\ LogCount < MaxLogs
    /\ logs' = [logs EXCEPT !.info = @ + 1]
    /\ Called("LogInfo", TRUE)
    /\ UNCHANGED <<running, spans>>

\* NoopTelemetry.LogInfo: an empty body.
NoopLogInfo ==
    /\ impl = "Noop" /\ running
    /\ Called("LogInfo", TRUE)
    /\ UNCHANGED <<running, logs, spans>>

\* NoopTelemetry.LogErrorln: an empty body.
NoopLogErrorln ==
    /\ impl = "Noop" /\ running
    /\ Called("LogErrorln", TRUE)
    /\ UNCHANGED <<running, logs, spans>>

\* NoopTelemetry.LogFatalln: os.Exit(1), and no record.
NoopLogFatalln ==
    /\ impl = "Noop" /\ running
    /\ running' = FALSE
    /\ Called("LogFatalln", FALSE)
    /\ UNCHANGED <<logs, spans>>

\* NoopTelemetry.LogRequest: a handler that only calls c.Next().
NoopLogRequest ==
    /\ impl = "Noop" /\ running
    /\ Called("LogRequest", TRUE)
    /\ UNCHANGED <<running, logs, spans>>

\* NoopTelemetry.MeterRequestDuration: a handler that only calls c.Next().
NoopMeterRequestDuration ==
    /\ impl = "Noop" /\ running
    /\ Called("MeterRequestDuration", TRUE)
    /\ UNCHANGED <<running, logs, spans>>

\* NoopTelemetry.MeterRequestsInFlight: a handler that only calls c.Next().
NoopMeterRequestsInFlight ==
    /\ impl = "Noop" /\ running
    /\ Called("MeterRequestsInFlight", TRUE)
    /\ UNCHANGED <<running, logs, spans>>

\* NoopTelemetry.TraceStart: the context and the span it carries, unchanged.
NoopTraceStart ==
    /\ impl = "Noop" /\ running
    /\ Called("TraceStart", TRUE)
    /\ UNCHANGED <<running, logs, spans>>

\* NoopTelemetry.MeterInt64Histogram: nil, nil.
NoopMeterInt64Histogram ==
    /\ impl = "Noop" /\ running
    /\ Called("MeterInt64Histogram", TRUE)
    /\ UNCHANGED <<running, logs, spans>>

\* NoopTelemetry.MeterInt64UpDownCounter: nil, nil.
NoopMeterInt64UpDownCounter ==
    /\ impl = "Noop" /\ running
    /\ Called("MeterInt64UpDownCounter", TRUE)
    /\ UNCHANGED <<running, logs, spans>>

\* NoopTelemetry.Shutdown: an empty body.
NoopShutdown ==
    /\ impl = "Noop" /\ running
    /\ Called("Shutdown", TRUE)
    /\ UNCHANGED <<running, logs, spans>>

InitOps ==
    /\ impl \in {"Telemetry", "Noop"}
    /\ Started(impl)
    /\ RuntimeIdle

NextOps ==
    \/ TelGetServiceName
    \/ TelLogInfo
    \/ TelLogErrorln
    \/ TelLogFatalln
    \/ TelMeterInt64Histogram
    \/ TelMeterInt64UpDownCounter
    \/ TelTraceStart
    \/ NoopGetServiceName
    \/ NoopLogInfo
    \/ NoopLogErrorln
    \/ NoopLogFatalln
    \/ NoopLogRequest
    \/ NoopMeterRequestDuration
    \/ NoopMeterRequestsInFlight
    \/ NoopTraceStart
    \/ NoopMeterInt64Histogram
    \/ NoopMeterInt64UpDownCounter
    \/ NoopShutdown

SpecOps == InitOps /\ [][NextOps]_vars

-----------------------------------------------------------------------------
\* Requests that use the free functions StartTracing and RecordMetrics.
\*
\* Goroutines interleave between the calls a request makes into the provider
\* and the SDK instruments, each of which is atomic; a request's position names
\* the call it makes next.

\* tp.LogErrorln as the request's provider implements it.
LogErrorlnOf(i, l) == IF i = "Telemetry" THEN [l EXCEPT !.error = @ + 1] ELSE l

\* StartTracing: tp.TraceStart, then SetAttributes on the span it returned.
\* Telemetry starts a new span and the attributes go to it; NoopTelemetry
\* returns the span the context carries (a non-recording span when it carries
\* none), and the attributes go to that one. inCtx: the context carries a span.
StartTracing(r) ==
    /\ running
    /\ rpc[r] = "idle"
    /\ \E inCtx \in BOOLEAN :
          /\ spans' = IF impl = "Telemetry" THEN spans + 1 ELSE spans
          /\ ctxAttrs' = IF impl = "Noop" /\ inCtx THEN ctxAttrs + 1 ELSE ctxAttrs
    /\ rpc' = [rpc EXCEPT ![r] = "traced"]
    /\ UNCHANGED startupVars
    /\ UNCHANGED <<impl, running, lastOp, returned, logs, inflight, samples, ctr, hist,
                   adds, decs>>

\* RecordMetrics, line 173: tp.MeterInt64UpDownCounter(MetricRequestsInFlight).
\* Telemetry returns the counter, or nil and an error; NoopTelemetry nil, nil.
CreateCounter(r) ==
    /\ running
    /\ rpc[r] = "traced"
    /\ \E c \in IF impl = "Telemetry" THEN {"inst", "err"} ELSE {"nil"} :
          ctr' = [ctr EXCEPT ![r] = c]
    /\ rpc' = [rpc EXCEPT ![r] = "created"]
    /\ UNCHANGED startupVars
    /\ UNCHANGED <<impl, running, lastOp, returned, logs, inflight, samples, spans,
                   ctxAttrs, hist, adds, decs>>

\* RecordMetrics, lines 174-195: the error is logged, or 1 is added to the
\* counter; a method call on the nil counter panics. Then the start time is
\* taken and the closure returned.
CountRequest(r) ==
    /\ running
    /\ rpc[r] = "created"
    /\ CASE ctr[r] = "err" ->
              /\ logs' = LogErrorlnOf(impl, logs)
              /\ rpc' = [rpc EXCEPT ![r] = "handling"]
              /\ UNCHANGED <<inflight, adds>>
         [] ctr[r] = "inst" ->
              /\ inflight' = inflight + 1
              /\ adds' = [adds EXCEPT ![r] = @ + 1]
              /\ rpc' = [rpc EXCEPT ![r] = "handling"]
              /\ UNCHANGED logs
         [] OTHER ->
              /\ rpc' = [rpc EXCEPT ![r] = "panicked"]
              /\ UNCHANGED <<logs, inflight, adds>>
    /\ UNCHANGED startupVars
    /\ UNCHANGED <<impl, running, lastOp, returned, samples, spans, ctxAttrs, ctr, hist,
                   decs>>

\* The returned function with the decrement of the counter left out.
FinishCountNever(r) ==
    /\ running
    /\ rpc[r] = "handling"
    /\ rpc' = [rpc EXCEPT ![r] = "counted"]
    /\ UNCHANGED startupVars
    /\ UNCHANGED <<impl, running, lastOp, returned, logs, inflight, samples, spans,
                   ctxAttrs, ctr, hist, adds, decs>>

\* The returned function, lines 184-186: -1 is added to the counter when the
\* captured counter is not nil.
FinishCount(r) ==
    /\ running
    /\ rpc[r] = "handling"
    /\ IF ctr[r] = "inst"
       THEN /\ inflight' = inflight - 1
            /\ decs' = [decs EXCEPT ![r] = @ + 1]
       ELSE UNCHANGED <<inflight, decs>>
    /\ rpc' = [rpc EXCEPT ![r] = "counted"]
    /\ UNCHANGED startupVars
    /\ UNCHANGED <<impl, running, lastOp, returned, logs, samples, spans, ctxAttrs, ctr,
                   hist, adds>>

\* The returned function, lines 189-190: the duration since the start, then
\* tp.MeterInt64Histogram(MetricRequestDurationMillis).
CreateHistogram(r) ==
    /\ running
    /\ rpc[r] = "counted"
    /\ \E h \in IF impl = "Telemetry" THEN {"inst", "err"} ELSE {"nil"} :
          hist' = [hist EXCEPT ![r] = h]
    /\ rpc' = [rpc EXCEPT ![r] = "measured"]
    /\ UNCHANGED startupVars
    /\ UNCHANGED <<impl, running, lastOp, returned, logs, inflight, samples, spans,
                   ctxAttrs, ctr, adds, decs>>

\* The end of the returned function with the duration recorded only for a
\* request whose counter was created.
RecordDurationIfCounted(r) ==
    /\ running
    /\ rpc[r] = "measured"
    /\ CASE hist[r] = "err" ->
              /\ logs' = LogErrorlnOf(impl, logs)
              /\ rpc' = [rpc EXCEPT ![r] = "done"]
              /\ UNCHANGED samples
         [] hist[r] = "inst" ->
              /\ samples' = [samples EXCEPT ![r] = IF ctr[r] = "inst" THEN @ + 1 ELSE @]
              /\ rpc' = [rpc EXCEPT ![r] = "done"]
              /\ UNCHANGED logs
         [] OTHER ->
              /\ rpc' = [rpc EXCEPT ![r] = "panicked"]
              /\ UNCHANGED <<logs, samples>>
    /\ UNCHANGED startupVars
    /\ UNCHANGED <<impl, running, lastOp, returned, inflight, spans, ctxAttrs, ctr, hist,
                   adds, decs>>

\* The returned function, lines 190-194: the duration is recorded in the
\* histogram, or the error is logged; a method call on the nil histogram panics.
RecordDuration(r) ==
    /\ running
    /\ rpc[r] = "measured"
    /\ CASE hist[r] = "err" ->
              /\ logs' = LogErrorlnOf(impl, logs)
              /\ rpc' = [rpc EXCEPT ![r] = "done"]
              /\ UNCHANGED samples
         [] hist[r] = "inst" ->
              /\ samples' = [samples EXCEPT ![r] = @ + 1]
              /\ rpc' = [rpc EXCEPT ![r] = "done"]
              /\ UNCHANGED logs
         [] OTHER ->
              /\ rpc' = [rpc EXCEPT ![r] = "panicked"]
              /\ UNCHANGED <<logs, samples>>
    /\ UNCHANGED startupVars
    /\ UNCHANGED <<impl, running, lastOp, returned, inflight, spans, ctxAttrs, ctr, hist,
                   adds, decs>>

InitRequests ==
    /\ impl \in {"Telemetry", "Noop"}
    /\ Started(impl)
    /\ RuntimeIdle

NextRequests ==
    \E r \in Reqs :
        \/ StartTracing(r)
        \/ CreateCounter(r)
        \/ CountRequest(r)
        \/ FinishCount(r)
        \/ CreateHistogram(r)
        \/ RecordDuration(r)

SpecRequests == InitRequests /\ [][NextRequests]_vars

-----------------------------------------------------------------------------
\* Properties

\* C1: NewTelemetry calls the logger, meter and tracer provider constructors in
\* that order, each at most once; when one fails it returns a nil Telemetry and
\* an error wrapping that constructor's error, and no later provider is
\* constructed; it returns a Telemetry and a nil error only when all three
\* were constructed.
C1_NewTelemetryPropagates ==
    LET order == <<"newLoggerProvider", "newMeterProvider", "newTracerProvider">>
        outer == <<"failed to create logger provider", "failed to create meter provider",
                   "failed to create tracer provider">>
        inner == <<"failed to create OTLP log exporter",
                   "failed to create OTLP metric exporter",
                   "failed to create OTLP trace exporter">>
        k     == Len(calls)
    IN  ntRes.called =>
          /\ k \in 1..3
          /\ calls = SubSeq(order, 1, k)
          /\ ntRes.tel.nil <=> ntRes.err # NoErr
          /\ ntRes.err # NoErr =>
                /\ \E cause \in ExporterFailures :
                      /\ ntRes.err = WrapW(outer[k], WrapW(inner[k], cause))
                      /\ Unwrap(Unwrap(ntRes.err)) = cause
                /\ \A i \in 1..3 : prov[Providers[i]] = "none" <=> i >= k
          /\ ntRes.err = NoErr =>
                /\ k = 3
                /\ \A i \in 1..3 : prov[Providers[i]] # "none"
                /\ ntRes.tel.lp = "lp" /\ ntRes.tel.mp = "mp" /\ ntRes.tel.tp = "tp"

\* C1: the meter provider's constructor failed after the logger provider was built.
C1_Witness ==
    /\ ntRes.called
    /\ ntRes.tel.nil
    /\ calls = <<"newLoggerProvider", "newMeterProvider">>
    /\ Unwrap(ntRes.err) = WrapW("failed to create OTLP metric exporter",
                                 <<(<<"invalid endpoint">>)>>)

\* The defaults the Config struct declares, as values of the fields' types.
DefaultConfig ==
    [ServiceName         |-> <<"c","a","i","o">>,
     OTLPEndpoint        |-> <<"l","o","c","a","l","h","o","s","t",":","4","3","1","7">>,
     ResourceAttributes  |-> <<>>,
     ServiceVersion      |-> <<"0",".","0",".","1">>,
     Enabled             |-> TRUE,
     OTELExporterTimeout |-> 10000,
     OTELLogLevel        |-> <<"i","n","f","o">>,
     OTELPropagators     |-> <<"t","r","a","c","e","c","o","n","t","e","x","t",",",
                               "b","a","g","g","a","g","e">>,
     LokiAppName         |-> <<"g","o","-","a","p","p">>,
     LokiAuthToken       |-> <<>>,
     LokiFlushTimeout    |-> 2000,
     LokiTenantID        |-> <<"m","y","-","t","e","n","a","n","t">>,
     LokiURL             |-> <<>>]

C5_ShutdownAll ==
    pc = "down" =>
        /\ Len(shutdownLog) = 3
        /\ \A i \in 1..3 : shutdownLog[i].p = Providers[i]
        /\ \A p \in ProviderNames : prov[p] = "stopped"

\* C5: the logger provider's Shutdown reported an error and the others ran.
C5_Witness ==
    /\ pc = "down"
    /\ Len(shutdownLog) = 3
    /\ shutdownLog[1].failed
    /\ prov["mp"] = "stopped"
    /\ prov["tp"] = "stopped"

\* C9: with Enabled false in the loaded config the startup function returns a
\* NoopTelemetry and calls no provider constructor, and it returns a Telemetry
\* only with Enabled true.
C9_DisabledGetsNoop ==
    (pc # "init" /\ cfgRes.err = NoErr) =>
        /\ ~cfgRes.cfg.Enabled => (startRes.kind = "Noop" /\ calls = <<>>)
        /\ startRes.kind = "Telemetry" => cfgRes.cfg.Enabled

\* C10: when NewTelemetry has returned an error, no provider it constructed is
\* running and none is the process-global meter or tracer provider.
C10_FailedStartupLeavesNothing ==
    (ntRes.called /\ ntRes.err # NoErr) =>
        /\ \A p \in ProviderNames : prov[p] # "running"
        /\ globalMeter = "none"
        /\ globalTracer = "none"

\* No metric has been recorded.
NoMetric == inflight = 0 /\ \A r \in Reqs : samples[r] = 0 /\ adds[r] = 0 /\ decs[r] = 0

\* C2 as stated: whatever methods are called on a NoopTelemetry, no log record
\* is emitted, no metric recorded, no span started, and the process keeps running.
C2_NoopNoSideEffects ==
    impl = "Noop" => (logs = NoLogs /\ NoMetric /\ spans = 0 /\ running)

\* C2 as the code has it: whatever methods are called on a NoopTelemetry, no log
\* record is emitted, no metric recorded and no span started, and the process
\* keeps running unless LogFatalln was called, which ends it.
C2_NoopOnlyFatalExits ==
    impl = "Noop" =>
        /\ logs = NoLogs
        /\ NoMetric
        /\ spans = 0
        /\ running <=> lastOp # "LogFatalln"

\* C2: LogFatalln on a NoopTelemetry has ended the process without a record.
C2_Witness ==
    /\ impl = "Noop"
    /\ lastOp = "LogFatalln"
    /\ ~running
    /\ logs = NoLogs

CreationSucceeded ==
    \A r \in Reqs : ctr[r] \in {"unset", "inst"} /\ hist[r] \in {"unset", "inst"}

\* C6: with a Telemetry whose metric creation succeeds, under every
\* interleaving the in-flight counter equals the number of requests for which
\* RecordMetrics has returned and the returned function has not yet been
\* called; it is never negative; a request's -1 never precedes its +1; the
\* counter is back at zero when every request has finished; and a request has
\* one duration sample once it has finished and none before.
C6_InFlightBalanced ==
    (impl = "Telemetry" /\ CreationSucceeded) =>
        /\ inflight = Cardinality({r \in Reqs : rpc[r] = "handling"})
        /\ inflight >= 0
        /\ \A r \in Reqs : decs[r] <= adds[r] /\ adds[r] <= 1
        /\ \A r \in Reqs : adds[r] = (IF rpc[r] \in {"idle", "traced", "created"} THEN 0 ELSE 1)
        /\ (\A r \in Reqs : rpc[r] = "done") => inflight = 0
        /\ \A r \in Reqs : samples[r] = (IF rpc[r] = "done" THEN 1 ELSE 0)
        /\ \A r \in Reqs : rpc[r] # "panicked"

\* C6: one request has finished while another is still in flight.
C6_Witness ==
    /\ impl = "Telemetry"
    /\ CreationSucceeded
    /\ rpc[1] = "done"
    /\ samples[1] = 1
    /\ rpc[2] = "handling"
    /\ inflight = 1

\* C7: with a NoopTelemetry, StartTracing, RecordMetrics and the returned
\* function complete without a panic, record no counter or histogram value, and
\* set no attribute on a span the context already carried.
C7_NoopFreeFunctionsSafe ==
    impl = "Noop" =>
        /\ \A r \in Reqs : rpc[r] # "panicked"
        /\ NoMetric
        /\ ctxAttrs = 0

====
